---- MODULE Spec2Model ----
(***************************************************************************)
(* lasretile: re-tiling of LAS/LAZ point clouds onto a regular grid.       *)
(* Model of src/src/main.rs: header scan, overlap check, tile planning,    *)
(* the per-input streaming loop (batch read, run scan, lazy writer, write) *)
(* and the retirement of finished inputs.                                  *)
(*                                                                         *)
(* Coordinates and tile_size are integers (a fixed-point unit of the f64   *)
(* values); `(v / tile_size) as i32` is Rust's float-to-int cast, which    *)
(* truncates toward zero.                                                  *)
(***************************************************************************)
EXTENDS Integers, Sequences, FiniteSets, TLC

\* ---- bounds of the model ----
MaxInputs == 2      \* input files in the directory
MaxPlanInputs == 3  \* input files in the directory, when only planning is run
MaxPoints == 3      \* point budget, shared equally by the input files
MaxCoord == 1       \* largest x coordinate
NegCoord == 2       \* x coordinates go down to -NegCoord
NegY == 1           \* y coordinates are -NegY..0
MaxZ == 1           \* z coordinates are 0..MaxZ
MaxTileSize == 2    \* tile_size is 1..MaxTileSize
MaxBatch == 2       \* LAZ_BUFFER_SIZE is 1..MaxBatch

VARIABLES
    tile_size,      \* args[3] parsed
    batch_cap,      \* LAZ_BUFFER_SIZE
    pc,             \* position of main
    headers,        \* Vec of scanned header bounds
    reported,       \* pairs <<i, j>> printed by the overlap check
    output_files,   \* HashMap<(i32, i32), OutTile>
    i_file,         \* index of the input being streamed (1-based)
    reader,         \* [pos, len] of the open reader
    points,         \* the batch buffer
    i,              \* position of the run scan in the batch (0-based)
    err,            \* the error main returned, or "none"
    disk,           \* output folder: tile index -> points of the file
    input_points,   \* per input, the points read from it so far
    opens,          \* tile index -> number of writers created for it
    closes,         \* tile index -> number of writers dropped for it
    removed,        \* tile indices that retain dropped from output_files
    lookups         \* output_files.get_mut calls made for the current batch

vars == <<tile_size, batch_cap, pc, headers, reported, output_files, i_file,
          reader, points, i, err, disk, input_points, opens, closes, removed, lookups>>

\* ---- values ----
XCoords == (0 - NegCoord)..MaxCoord
YCoords == (0 - NegY)..0
ZCoords == 0..MaxZ
Vectors == [x : XCoords, y : YCoords, z : ZCoords]
Boxes == {b \in [min : Vectors, max : Vectors] :
            /\ b.min.x <= b.max.x
            /\ b.min.y <= b.max.y
            /\ b.min.z <= b.max.z}
Coordinates == [x : XCoords, y : YCoords]

Min(a, b) == IF a <= b THEN a ELSE b

\* mathematical floor(v / tile_size), the grid cell of the specification
FloorDiv(v, ts) == v \div ts

\* (v / tile_size) as i32: the cast truncates toward zero
TruncDiv(v, ts) == IF v >= 0 THEN v \div ts ELSE 0 - ((0 - v) \div ts)

\* the tile index of a point
TileIndex(p, ts) == <<TruncDiv(p.x, ts), TruncDiv(p.y, ts)>>

\* a.min.x > b.max.x || a.max.x < b.min.x || ... negated
bounds_intersect_xy(a, b) ==
    ~ (\/ a.min.x > b.max.x
       \/ a.max.x < b.min.x
       \/ a.min.y > b.max.y
       \/ a.max.y < b.min.y)
bounds_intersect_strict(a, b) ==
    ~ (\/ a.min.x >= b.max.x
       \/ a.max.x <= b.min.x
       \/ a.min.y >= b.max.y
       \/ a.max.y <= b.min.y
       \/ a.min.z >= b.max.z
       \/ a.max.z <= b.min.z)
bounds_intersect(a, b) ==
    ~ (\/ a.min.x > b.max.x
       \/ a.max.x < b.min.x
       \/ a.min.y > b.max.y
       \/ a.max.y < b.min.y
       \/ a.min.z > b.max.z
       \/ a.max.z < b.min.z)

\* ---- Step 1: header scan, main.rs 28-53 ----
\* Directory entries that are not .las/.laz files are skipped and change nothing.

\* main returns Err(e): the state is kept as it was at that moment
Fail(e) ==
    /\ pc' = "failed"
    /\ err' = e

\* the next directory entry is a LAS/LAZ file whose header reads
ScanFileUpTo(n) ==
    /\ pc = "scan"
    /\ Len(headers) < n
    /\ \E b \in Boxes : headers' = Append(headers, b)
    /\ UNCHANGED <<tile_size, batch_cap, pc, reported, output_files, i_file,
                   reader, points, i, err, disk, input_points, opens, closes, removed, lookups>>

ScanFile == ScanFileUpTo(MaxInputs)

\* las::Reader::from_path fails on the next directory entry
ScanFileErrorLate ==
    /\ \/ pc = "scan" /\ Len(headers) < MaxInputs
       \/ pc = "open"
    /\ Fail("open LAS/LAZ file")
    /\ UNCHANGED <<tile_size, batch_cap, headers, reported, output_files,
                   i_file, reader, points, i, disk, input_points, opens, closes, removed, lookups>>
ScanFileError ==
    /\ pc = "scan"
    /\ Len(headers) < MaxInputs
    /\ Fail("open LAS/LAZ file")
    /\ UNCHANGED <<tile_size, batch_cap, headers, reported, output_files,
                   i_file, reader, points, i, disk, input_points, opens, closes, removed, lookups>>

\* the directory is exhausted: min/max reduce over the headers
ScanDone ==
    /\ pc = "scan"
    /\ IF Len(headers) = 0
         THEN Fail("at least one input file")
         ELSE pc' = "overlap" /\ err' = err
    /\ UNCHANGED <<tile_size, batch_cap, headers, reported, output_files,
                   i_file, reader, points, i, disk, input_points, opens, closes, removed, lookups>>

\* ---- overlap check, main.rs 84-101 ----
\* the pairs the double loop prints: it has no break
OverlapPairsFirst(hs) ==
    LET all == {pr \in (1..Len(hs)) \X (1..Len(hs)) :
                  pr[1] # pr[2] /\ bounds_intersect(hs[pr[1]], hs[pr[2]])}
    IN IF all = {} THEN {}
       ELSE {CHOOSE pr \in all :
               \A q \in all : pr[1] < q[1] \/ (pr[1] = q[1] /\ pr[2] <= q[2])}
OverlapPairs(hs) ==
    {pr \in (1..Len(hs)) \X (1..Len(hs)) :
       pr[1] # pr[2] /\ bounds_intersect(hs[pr[1]], hs[pr[2]])}

CheckOverlap ==
    /\ pc = "overlap"
    /\ reported' = OverlapPairs(headers)
    /\ IF reported' # {}
         THEN Fail("overlapping files found")
         ELSE pc' = "plan" /\ err' = err
    /\ UNCHANGED <<tile_size, batch_cap, headers, output_files, i_file,
                   reader, points, i, disk, input_points, opens, closes, removed, lookups>>

\* ---- Step 2: tile planning, main.rs 115-135 ----
\* min_x..=max_x x min_y..=max_y of one header
TileRangeExclusive(b, ts) ==
    {t \in (TruncDiv(b.min.x, ts)..(TruncDiv(b.max.x, ts) - 1))
             \X (TruncDiv(b.min.y, ts)..(TruncDiv(b.max.y, ts) - 1)) : TRUE}
TileRange(b, ts) ==
    {t \in (TruncDiv(b.min.x, ts)..TruncDiv(b.max.x, ts))
             \X (TruncDiv(b.min.y, ts)..TruncDiv(b.max.y, ts)) : TRUE}

\* entry((tx, ty)).or_insert_with(..).input_files.insert(k) for the range of input k
InsertInputNoMerge(tiles, k, range) ==
    [t \in (DOMAIN tiles) \cup range |->
        IF t \in DOMAIN tiles
          THEN tiles[t]
          ELSE [tile_index |-> t, input_files |-> {k}, writer |-> FALSE]]
InsertInputEager(tiles, k, range) ==
    [t \in (DOMAIN tiles) \cup range |->
        IF t \in range
          THEN IF t \in DOMAIN tiles
                 THEN [tiles[t] EXCEPT !.input_files = @ \cup {k}]
                 ELSE [tile_index |-> t, input_files |-> {k}, writer |-> TRUE]
          ELSE tiles[t]]
InsertInput(tiles, k, range) ==
    [t \in (DOMAIN tiles) \cup range |->
        IF t \in range
          THEN IF t \in DOMAIN tiles
                 THEN [tiles[t] EXCEPT !.input_files = @ \cup {k}]
                 ELSE [tile_index |-> t, input_files |-> {k}, writer |-> FALSE]
          ELSE tiles[t]]

RECURSIVE PlanFrom(_, _, _, _)
PlanFrom(k, hs, ts, tiles) ==
    IF k > Len(hs) THEN tiles
    ELSE PlanFrom(k + 1, hs, ts, InsertInput(tiles, k, TileRange(hs[k], ts)))

NoTiles == [t \in {} |-> 0]

Plan ==
    /\ pc = "plan"
    /\ output_files' = PlanFrom(1, headers, tile_size, NoTiles)
    /\ i_file' = 1
    /\ pc' = "open"
    /\ UNCHANGED <<tile_size, batch_cap, headers, reported, reader, points,
                   i, err, disk, input_points, opens, closes, removed, lookups>>

\* ---- per-input streaming loop, main.rs 145-201 ----
\* the points one input may hold: an equal share of the point budget
PointShare == MaxPoints \div Len(headers)

\* File::open and las::Reader::with_options on headers[i_file]
OpenReader ==
    /\ pc = "open"
    /\ \E len \in 0..PointShare : reader' = [pos |-> 0, len |-> len]
    /\ pc' = "read"
    /\ UNCHANGED <<tile_size, batch_cap, headers, reported, output_files,
                   i_file, points, i, err, disk, input_points, opens, closes, removed, lookups>>

OpenReaderErrorSkip ==
    /\ pc = "open"
    /\ pc' = "retain"
    /\ err' = "open input"
    /\ UNCHANGED <<tile_size, batch_cap, headers, reported, output_files,
                   i_file, reader, points, i, disk, input_points, opens, closes, removed, lookups>>
OpenReaderError ==
    /\ pc = "open"
    /\ Fail("open input")
    /\ UNCHANGED <<tile_size, batch_cap, headers, reported, output_files,
                   i_file, reader, points, i, disk, input_points, opens, closes, removed, lookups>>

\* reader.read_points_into(LAZ_BUFFER_SIZE, &mut points): n points, 0 at the end
ReadBatch ==
    /\ pc = "read"
    /\ LET n == Min(batch_cap, reader.len - reader.pos)
       IN /\ \E cs \in [1..n -> Coordinates] :
                points' = [k \in 1..n |->
                             [x |-> cs[k].x, y |-> cs[k].y,
                              src |-> i_file, idx |-> reader.pos + k]]
          /\ reader' = [reader EXCEPT !.pos = @ + n]
          /\ input_points' = [input_points EXCEPT ![i_file] = @ \o points']
          /\ pc' = IF n = 0 THEN "retain" ELSE "runs"
    /\ i' = 0
    /\ lookups' = 0
    /\ UNCHANGED <<tile_size, batch_cap, headers, reported, output_files,
                   i_file, err, disk, opens, closes, removed>>

ReadBatchError ==
    /\ pc = "read"
    /\ Fail("read points")
    /\ UNCHANGED <<tile_size, batch_cap, headers, reported, output_files,
                   i_file, reader, points, i, disk, input_points, opens, closes, removed, lookups>>

\* run scan, main.rs 165-182: the points from position k on that stay in tile t
RunCountNoBreak(pts, k, t, ts) == Len(pts) - k + 1
RunCountZero(pts, k, t, ts) == 0
RunCountOne(pts, k, t, ts) ==
    IF k > Len(pts) \/ TileIndex(pts[k], ts) # t THEN 0 ELSE 1
RECURSIVE RunCount(_, _, _, _)
RunCount(pts, k, t, ts) ==
    IF k > Len(pts) \/ TileIndex(pts[k], ts) # t THEN 0
    ELSE 1 + RunCount(pts, k + 1, t, ts)

\* OutTile::get_writer, main.rs 234-255: `if self.writer.is_none()` creates one
NeedsCreateAlways(tile) == TRUE
NeedsCreate(tile) == ~ tile.writer

\* the tile after get_writer returned Ok
get_writer(tile) == [tile EXCEPT !.writer = TRUE]

Bump(f, t) == IF t \in DOMAIN f THEN [f EXCEPT ![t] = @ + 1] ELSE (t :> 1) @@ f

\* the run that starts at points[i]
RunTile == TileIndex(points[i + 1], tile_size)
RunLen == RunCount(points, i + 1, RunTile, tile_size)

\* &points[i..(i + count)], main.rs 192
RunPointsNoOffset(pts, from, count) == SubSeq(pts, 1, count)
RunPoints(pts, from, count) == SubSeq(pts, from + 1, from + count)

\* the state after get_writer succeeded on the run's tile
Opened(t) ==
    /\ output_files' = [output_files EXCEPT ![t] = get_writer(@)]
    /\ opens' = IF NeedsCreate(output_files[t]) THEN Bump(opens, t) ELSE opens

\* the file of tile t after `written` more points went through its writer;
\* a writer created by las::Writer::from_path starts from an empty file
WrittenPrepend(t, written) ==
    written \o (IF NeedsCreate(output_files[t]) THEN <<>> ELSE disk[t])
Written(t, written) ==
    (IF NeedsCreate(output_files[t]) THEN <<>> ELSE disk[t]) \o written

\* one iteration of `while i < n`: scan a run, look its tile up, write it
ProcessRun ==
    /\ pc = "runs"
    /\ i < Len(points)
    /\ IF RunLen = 0
         THEN /\ Fail("at least one point to process")
              /\ lookups' = lookups
              /\ UNCHANGED <<output_files, opens, disk, i>>
         ELSE IF RunTile \notin DOMAIN output_files
         THEN /\ Fail("tile should exist")
              /\ lookups' = lookups + 1
              /\ UNCHANGED <<output_files, opens, disk, i>>
         ELSE /\ Opened(RunTile)
              /\ lookups' = lookups + 1
              /\ disk' = (RunTile :> Written(RunTile, RunPoints(points, i, RunLen)))
                           @@ disk
              /\ i' = i + RunLen
              /\ pc' = IF i' < Len(points) THEN "runs" ELSE "read"
              /\ err' = err
    /\ UNCHANGED <<tile_size, batch_cap, headers, reported, i_file, reader,
                   points, input_points, closes, removed>>

\* las::Writer::from_path fails in get_writer
CreateWriterError ==
    /\ pc = "runs"
    /\ i < Len(points)
    /\ RunTile \in DOMAIN output_files
    /\ NeedsCreate(output_files[RunTile])
    /\ Fail("Could not get writer")
    /\ lookups' = lookups + 1
    /\ UNCHANGED <<tile_size, batch_cap, headers, reported, output_files,
                   i_file, reader, points, i, disk, input_points, opens, closes, removed>>

\* write_point fails after k points of the run were written
WritePointError ==
    /\ pc = "runs"
    /\ i < Len(points)
    /\ RunTile \in DOMAIN output_files
    /\ Opened(RunTile)
    /\ \E k \in 0..(RunLen - 1) :
          disk' = (RunTile :> Written(RunTile, RunPoints(points, i, k))) @@ disk
    /\ Fail("Could not write point")
    /\ lookups' = lookups + 1
    /\ UNCHANGED <<tile_size, batch_cap, headers, reported, i_file, reader,
                   points, i, input_points, closes, removed>>

\* ---- retirement of the finished input, main.rs 206-212 ----
\* tile.input_files.remove(&i_file) on every tile
RemovedWhereWritten(tiles, k) ==
    [t \in DOMAIN tiles |->
        IF tiles[t].writer THEN [tiles[t] EXCEPT !.input_files = @ \ {k}]
        ELSE tiles[t]]
Removed(tiles, k) ==
    [t \in DOMAIN tiles |-> [tiles[t] EXCEPT !.input_files = @ \ {k}]]

\* retain keeps the tiles whose input_files is not empty
RetainedDropTouched(tiles, k) ==
    LET after == Removed(tiles, k)
    IN [t \in {u \in DOMAIN tiles : k \notin tiles[u].input_files} |-> after[t]]
RetainedIfRemoved(tiles, k) ==
    LET after == Removed(tiles, k)
    IN [t \in {u \in DOMAIN tiles :
                 k \in tiles[u].input_files /\ after[u].input_files # {}} |-> after[t]]
Retained(tiles, k) ==
    LET after == Removed(tiles, k)
    IN [t \in {u \in DOMAIN after : after[u].input_files # {}} |-> after[t]]

Retain ==
    /\ pc = "retain"
    /\ output_files' = Retained(output_files, i_file)
    /\ closes' = [t \in (DOMAIN closes) \cup
                        {u \in (DOMAIN output_files) \ (DOMAIN output_files') :
                           output_files[u].writer} |->
                    (IF t \in DOMAIN closes THEN closes[t] ELSE 0)
                    + (IF /\ t \in DOMAIN output_files
                          /\ t \notin DOMAIN output_files'
                          /\ output_files[t].writer THEN 1 ELSE 0)]
    /\ i_file' = i_file + 1
    /\ pc' = IF i_file' > Len(headers) THEN "ensure" ELSE "open"
    /\ removed' = removed \cup ((DOMAIN output_files) \ (DOMAIN output_files'))
    /\ UNCHANGED <<tile_size, batch_cap, headers, reported, reader, points,
                   i, err, disk, input_points, opens, lookups>>

\* anyhow::ensure!(output_files.is_empty(), ..), main.rs 217
Ensure ==
    /\ pc = "ensure"
    /\ IF DOMAIN output_files = {}
         THEN pc' = "done" /\ err' = err
         ELSE Fail("all output files should be closed")
    /\ UNCHANGED <<tile_size, batch_cap, headers, reported, output_files,
                   i_file, reader, points, i, disk, input_points, opens, closes, removed, lookups>>

\* ---- the program ----
Init ==
    /\ tile_size \in 1..MaxTileSize
    /\ batch_cap \in 1..MaxBatch
    /\ pc = "scan"
    /\ headers = <<>>
    /\ reported = {}
    /\ output_files = NoTiles
    /\ i_file = 0
    /\ reader = [pos |-> 0, len |-> 0]
    /\ points = <<>>
    /\ i = 0
    /\ err = "none"
    /\ disk = NoTiles
    /\ input_points = [k \in 1..MaxInputs |-> <<>>]
    /\ opens = NoTiles
    /\ closes = NoTiles
    /\ removed = {}
    /\ lookups = 0

Next ==
    \/ ScanFile
    \/ ScanFileError
    \/ ScanDone
    \/ CheckOverlap
    \/ Plan
    \/ OpenReader
    \/ OpenReaderError
    \/ ReadBatch
    \/ ReadBatchError
    \/ ProcessRun
    \/ CreateWriterError
    \/ WritePointError
    \/ Retain
    \/ Ensure

Spec == Init /\ [][Next]_vars

\* the run over inputs that all span the same height: z only enters the
\* overlap check, so two such inputs pass it when they are apart in x or y
FlatScanFile ==
    /\ ScanFile
    /\ headers'[Len(headers')].min.z = 0
    /\ headers'[Len(headers')].max.z = 0

FlatNext ==
    \/ FlatScanFile
    \/ ScanFileError
    \/ ScanDone
    \/ CheckOverlap
    \/ Plan
    \/ OpenReader
    \/ OpenReaderError
    \/ ReadBatch
    \/ ReadBatchError
    \/ ProcessRun
    \/ CreateWriterError
    \/ WritePointError
    \/ Retain
    \/ Ensure

\* main is one sequential thread: while a step is possible it takes one
FairSpec == Init /\ [][FlatNext]_vars /\ WF_vars(FlatNext)

\* the run up to the end of planning, over a larger directory
PlanScanFile == ScanFileUpTo(MaxPlanInputs)

PlanNext ==
    \/ PlanScanFile
    \/ ScanFileError
    \/ ScanDone
    \/ CheckOverlap
    \/ Plan

PlanSpec == Init /\ [][PlanNext]_vars

\* the run up to the end of planning, over the directory of Spec
OverlapNext ==
    \/ ScanFile
    \/ ScanFileError
    \/ ScanDone
    \/ CheckOverlap
    \/ Plan

OverlapSpec == Init /\ [][OverlapNext]_vars

\* ---- what the claims speak of ----
Inputs == 1..Len(headers)

\* the (tile, position) slots of the output folder, and the point in each
DiskSlots == UNION {{<<t, k>> : k \in 1..Len(disk[t])} : t \in DOMAIN disk}
ReadSlots == UNION {{<<j, n>> : n \in 1..Len(input_points[j])} : j \in Inputs}
SlotsOf(p) == {s \in DiskSlots : disk[s[1]][s[2]] = p}

\* the grid cell of the specification: floor division on both axes
FloorTile(p, ts) == <<FloorDiv(p.x, ts), FloorDiv(p.y, ts)>>

\* closed intervals [a.min, a.max] and [b.min, b.max] share a value on every axis
Intersects(a, b) ==
    /\ \E v \in XCoords : a.min.x <= v /\ v <= a.max.x /\ b.min.x <= v /\ v <= b.max.x
    /\ \E v \in YCoords : a.min.y <= v /\ v <= a.max.y /\ b.min.y <= v /\ v <= b.max.y
    /\ \E v \in ZCoords : a.min.z <= v /\ v <= a.max.z /\ b.min.z <= v /\ v <= b.max.z

SomeOverlap == \E a, b \in Inputs : a # b /\ Intersects(headers[a], headers[b])

\* the header scan read every input
ScanCompleted ==
    /\ pc # "scan"
    /\ err \notin {"open LAS/LAZ file", "at least one input file"}

\* C1 (as claimed): when the run completes, every point read sits in exactly one
\* slot of the output folder, in the tile (floor(x/tile_size), floor(y/tile_size)).
PartitionFloor ==
    pc = "done" =>
        \A r \in ReadSlots :
            LET p == input_points[r[1]][r[2]]
            IN /\ Cardinality(SlotsOf(p)) = 1
               /\ \A s \in SlotsOf(p) : s[1] = FloorTile(p, tile_size)

\* C2: when the run completes, every input was read to its end, every point read
\* sits in exactly one slot of the output folder, and the folder holds as many
\* points as were read.
Conservation ==
    /\ pc = "retain" => reader.pos = reader.len
    /\ pc = "done" =>
        /\ \A r \in ReadSlots :
              Cardinality(SlotsOf(input_points[r[1]][r[2]])) = 1
        /\ Cardinality(DiskSlots) = Cardinality(ReadSlots)

ConservationWitness ==
    /\ pc = "done"
    /\ Cardinality(ReadSlots) = MaxPoints
    /\ Cardinality(DOMAIN disk) >= 2
    /\ \E t \in DOMAIN disk : Len(disk[t]) >= 2

\* C3: when two scanned inputs intersect, no tile file is ever created and no
\* writer is ever opened, and once the scan is complete the run has failed with
\* the overlapping-files error.
OverlapRejected ==
    SomeOverlap =>
        /\ DOMAIN disk = {}
        /\ DOMAIN opens = {}
        /\ (ScanCompleted /\ pc # "overlap") =>
              (pc = "failed" /\ err = "overlapping files found")

OverlapRejectedWitness ==
    /\ SomeOverlap
    /\ pc = "failed"
    /\ err = "overlapping files found"
    /\ \E a, b \in Inputs :
          /\ headers[a].max.x = headers[b].min.x
          /\ headers[a].min.x < headers[b].min.x

\* The tile lifecycle of C4: a tile's writer is created at most once and dropped at most once, a writer
\* exists exactly while the registry holds it, a tile removed from the registry
\* never comes back and its file never changes again, and a run that maps to a
\* removed tile aborts the run.
LifecycleInv ==
    /\ \A t \in DOMAIN opens : opens[t] <= 1
    /\ \A t \in DOMAIN closes : closes[t] <= 1 /\ t \in DOMAIN opens /\ t \in removed
    /\ \A t \in DOMAIN output_files :
          /\ t \notin removed
          /\ output_files[t].writer <=> (t \in DOMAIN opens /\ t \notin DOMAIN closes)
    /\ DOMAIN disk = DOMAIN opens

LifecycleStep ==
    \A t \in removed :
        /\ t \notin DOMAIN output_files'
        /\ t \in DOMAIN disk' <=> t \in DOMAIN disk
        /\ t \in DOMAIN disk => disk'[t] = disk[t]
        /\ (t \in DOMAIN opens' <=> t \in DOMAIN opens)
        /\ (pc = "runs" /\ i < Len(points) /\ RunTile = t) => pc' = "failed"

\* C4: LifecycleInv holds in every state and LifecycleStep on every step.
TileLifecycle == [](LifecycleInv) /\ [][LifecycleStep]_vars

TileLifecycleWitness ==
    /\ pc = "failed"
    /\ err = "tile should exist"
    /\ RunTile \in removed
    /\ RunTile \in DOMAIN closes
    /\ Len(disk[RunTile]) >= 1

\* C5: once the last input is retired the registry is empty, and the final
\* check never fails.
RegistryDrained ==
    /\ pc \in {"ensure", "done"} => DOMAIN output_files = {}
    /\ err # "all output files should be closed"

RegistryDrainedWitness ==
    /\ pc = "done"
    /\ Len(headers) = MaxInputs
    /\ \E t \in removed : t \notin DOMAIN disk
    /\ \E t \in removed : t \in DOMAIN disk

\* the bounds of input k lie inside one grid cell
InOneCell(b, ts) ==
    /\ FloorDiv(b.min.x, ts) = FloorDiv(b.max.x, ts)
    /\ FloorDiv(b.min.y, ts) = FloorDiv(b.max.y, ts)

InBounds(p, b) ==
    /\ b.min.x <= p.x /\ p.x <= b.max.x
    /\ b.min.y <= p.y /\ p.y <= b.max.y

PointsInBounds(k) ==
    \A n \in 1..Len(input_points[k]) : InBounds(input_points[k][n], headers[k])

\* the output files that hold a point of input k
FilesOf(k) == {t \in DOMAIN disk : \E n \in 1..Len(disk[t]) : disk[t][n].src = k}

\* a is a contiguous block of b
IsBlockOf(a, b) ==
    \E from \in 0..(Len(b) - Len(a)) : SubSeq(b, from + 1, from + Len(a)) = a

\* C6 (as claimed, in what it says of an input that holds a point and keeps its
\* points in its bounds): when the run completes, an input whose bounds lie
\* inside one grid cell has exactly one output file, and its points are in that
\* file in their original order.
SingleTileOneFile ==
    pc = "done" =>
        \A k \in Inputs :
            (/\ InOneCell(headers[k], tile_size)
             /\ PointsInBounds(k)
             /\ input_points[k] # <<>>) =>
                \E t \in DOMAIN disk :
                    /\ FilesOf(k) = {t}
                    /\ IsBlockOf(input_points[k], disk[t])

\* the points of input k in tile file t, and the points of input k that map to t
Projection(t, k) == SelectSeq(disk[t], LAMBDA p : p.src = k)
FromInput(k, t) ==
    SelectSeq(input_points[k], LAMBDA p : TileIndex(p, tile_size) = t)

\* the output folder is the one the inputs and tile_size determine: a file for
\* each tile some point maps to, holding per input that input's points of the
\* tile in input order
OutputDetermined ==
    /\ DOMAIN disk =
          {TileIndex(input_points[r[1]][r[2]], tile_size) : r \in ReadSlots}
    /\ \A t \in DOMAIN disk :
          /\ \A n \in 1..Len(disk[t]) : disk[t][n].src \in Inputs
          /\ \A k \in Inputs : Projection(t, k) = FromInput(k, t)

HeaderScanFirst ==
    (DOMAIN disk # {} \/ DOMAIN opens # {}) => ScanCompleted

HeaderScanFirstWitness ==
    /\ pc = "failed"
    /\ err = "open LAS/LAZ file"
    /\ Len(headers) >= 1
    /\ DOMAIN disk = {}

\* C9: once the overlap check has run, the pairs it reported are all the pairs
\* of distinct inputs whose bounds intersect.
CompleteOverlapReport ==
    (ScanCompleted /\ pc # "overlap") =>
        reported = {pr \in Inputs \X Inputs :
                      pr[1] # pr[2] /\ Intersects(headers[pr[1]], headers[pr[2]])}

CompleteOverlapReportWitness ==
    /\ pc = "failed"
    /\ err = "overlapping files found"
    /\ Len(headers) = MaxPlanInputs
    /\ Cardinality(reported) = 4
    /\ <<1, 2>> \notin reported

\* every tile index a coordinate of the model can map to
TileUniverse == ((0 - NegCoord - 1)..(MaxCoord + 1)) \X ((0 - NegY - 1)..1)

\* C10 (as claimed): right after planning, input k is a contributor of tile
\* (tx, ty) exactly when floor(min/tile_size) <= t <= floor(max/tile_size) on both
\* axes, and the registry holds exactly the tiles with a contributor.
PlanningFloor ==
    (pc = "open" /\ i_file = 1) =>
        /\ \A t \in TileUniverse : \A k \in Inputs :
              (t \in DOMAIN output_files /\ k \in output_files[t].input_files)
              <=> /\ FloorDiv(headers[k].min.x, tile_size) <= t[1]
                  /\ t[1] <= FloorDiv(headers[k].max.x, tile_size)
                  /\ FloorDiv(headers[k].min.y, tile_size) <= t[2]
                  /\ t[2] <= FloorDiv(headers[k].max.y, tile_size)
        /\ \A t \in DOMAIN output_files :
              t \in TileUniverse /\ output_files[t].input_files # {}

\* C11: the step that retires input i_file removes it from the contributors of
\* every tile; a tile leaves the registry exactly when that leaves it without
\* contributors, and then its writer, if it has one, is dropped; every other
\* tile keeps its writer and its other contributors; no file changes.
RetirementStep ==
    pc = "retain" =>
        /\ DOMAIN output_files' \subseteq DOMAIN output_files
        /\ \A t \in DOMAIN output_files :
              LET rest == output_files[t].input_files \ {i_file}
              IN /\ (t \notin DOMAIN output_files') <=> (rest = {})
                 /\ rest # {} =>
                       /\ output_files'[t].input_files = rest
                       /\ output_files'[t].writer = output_files[t].writer
                       /\ output_files'[t].tile_index = output_files[t].tile_index
                 /\ (t \in DOMAIN closes' /\ t \notin DOMAIN closes)
                       <=> (rest = {} /\ output_files[t].writer)
        /\ \A t \in TileRange(headers[i_file], tile_size) :
              t \in DOMAIN output_files' => i_file \notin output_files'[t].input_files
        /\ disk' = disk
        /\ opens' = opens

Retirement == [][RetirementStep]_vars

RetirementWitness ==
    /\ pc = "open"
    /\ i_file = 2
    /\ \E t \in DOMAIN output_files :
          /\ output_files[t].writer
          /\ output_files[t].input_files = {2}
          /\ t \in TileRange(headers[1], tile_size)
    /\ \E t \in removed : t \in TileRange(headers[1], tile_size)

LazyOpenState ==
    /\ \A t \in DOMAIN output_files :
          output_files[t].writer <=> (t \in DOMAIN disk /\ Len(disk[t]) >= 1)
    /\ DOMAIN disk = DOMAIN opens
    /\ \A t \in DOMAIN disk : Len(disk[t]) >= 1
    /\ \A t \in removed :
          t \notin DOMAIN disk => (t \notin DOMAIN opens /\ t \notin DOMAIN closes)

BatchTile(k) == TileIndex(points[k], tile_size)

\* the number of maximal blocks of equal tile index in the first n batch points
MaximalRuns(n) ==
    Cardinality({k \in 1..n : k = 1 \/ BatchTile(k) # BatchTile(k - 1)})

\* between two iterations of the run scan the points before i are whole
\* maximal runs, each looked up once; after the batch every point is covered
RunScanInv ==
    /\ pc = "runs" =>
          /\ i < Len(points)
          /\ i > 0 => BatchTile(i) # BatchTile(i + 1)
          /\ lookups = MaximalRuns(i)
    /\ pc \in {"read", "retain"} =>
          /\ i = Len(points)
          /\ lookups = MaximalRuns(Len(points))

\* an iteration that does not abort takes the points i+1..i' as one run
RunScanStep ==
    (pc = "runs" /\ pc' # "failed") =>
        /\ i' > i
        /\ i' <= Len(points)
        /\ \A k \in (i + 1)..i' : BatchTile(k) = BatchTile(i + 1)
        /\ i' < Len(points) => BatchTile(i' + 1) # BatchTile(i + 1)
        /\ lookups' = lookups + 1
        /\ disk'[BatchTile(i + 1)] =
              (IF BatchTile(i + 1) \in DOMAIN disk THEN disk[BatchTile(i + 1)] ELSE <<>>)
                 \o SubSeq(points, i + 1, i')
        /\ \A t \in DOMAIN disk : t # BatchTile(i + 1) => disk'[t] = disk[t]
        /\ points' = points
        /\ (pc' = "read") <=> (i' = Len(points))

\* C14: every batch is split into consecutive non-empty maximal runs of equal
\* tile index that cover each of its points once, with one registry lookup
\* per run.
RunPartition == [](RunScanInv) /\ [][RunScanStep]_vars

RunPartitionWitness ==
    /\ pc = "read"
    /\ Len(points) = 2
    /\ BatchTile(1) # BatchTile(2)
    /\ lookups = 2
    /\ Len(disk[BatchTile(1)]) = 1
    /\ Len(disk[BatchTile(2)]) = 1

\* C15: in every state, complete or not, the points of one input in one
\* output file are points of that input and stand in the order in which the
\* input delivered them, whatever runs and batches they were written in.
OrderPreserved ==
    \A t \in DOMAIN disk :
        \A a, b \in 1..Len(disk[t]) :
            /\ disk[t][a].idx \in 1..Len(input_points[disk[t][a].src])
            /\ input_points[disk[t][a].src][disk[t][a].idx] = disk[t][a]
            /\ (a < b /\ disk[t][a].src = disk[t][b].src)
                  => disk[t][a].idx < disk[t][b].idx

OrderPreservedWitness ==
    /\ batch_cap = 2
    /\ \E t \in DOMAIN disk :
          /\ Len(disk[t]) = 2
          /\ disk[t][1].idx = 1
          /\ disk[t][2].idx = 3
    /\ \E t \in DOMAIN disk : Len(disk[t]) = 1 /\ disk[t][1].idx = 2

\* C16: for the bounds of any two scanned inputs (min <= max on every axis),
\* bounds_intersect is true exactly when the closed intervals share a value on
\* each of the three axes, and it gives the same answer for both orders.
IntersectionTest ==
    \A a, b \in Inputs :
        /\ bounds_intersect(headers[a], headers[b])
              <=> Intersects(headers[a], headers[b])
        /\ bounds_intersect(headers[a], headers[b])
              <=> bounds_intersect(headers[b], headers[a])

\* two inputs that only touch, on the x and on the z boundary, were reported
\* as overlapping in both orders
IntersectionTestWitness ==
    /\ pc = "failed"
    /\ err = "overlapping files found"
    /\ Len(headers) = 2
    /\ headers[1].max.z = headers[2].min.z
    /\ headers[1].min.z < headers[2].min.z
    /\ headers[2].max.x = headers[1].min.x
    /\ headers[2].min.x < headers[1].min.x
    /\ reported = {<<1, 2>>, <<2, 1>>}

\* the errors of the streaming loop, main.rs 145-201
StreamErrors ==
    {"open input", "read points", "Could not get writer", "Could not write point"}

\* a step that fails in the streaming loop reports the error of the operation
\* that failed and keeps the inputs, the registry and the files as they were,
\* but for the points of the run already appended when write_point failed
StreamFailureStep ==
    /\ pc # "failed"
    /\ DOMAIN disk \subseteq DOMAIN disk'
    /\ (pc' = "failed" /\ pc \in {"open", "read", "runs"}) =>
          /\ pc = "open" => err' = "open input"
          /\ pc = "read" => err' = "read points"
          /\ pc = "runs" =>
                err' \in {"tile should exist", "Could not get writer",
                          "Could not write point"}
          /\ err' # "Could not write point" => disk' = disk
          /\ \A t \in DOMAIN disk :
                /\ Len(disk[t]) <= Len(disk'[t])
                /\ SubSeq(disk'[t], 1, Len(disk[t])) = disk[t]
          /\ UNCHANGED <<i_file, reader, points, i, input_points, closes, removed>>
          /\ DOMAIN output_files' = DOMAIN output_files

\* C17: a failure to open a reader, read a batch, create a writer or append a
\* point ends the run in the failed state with that error; no step follows a
\* failure, so nothing is retried, written or processed after it, and no step
\* removes an output file.
StreamingFailure ==
    /\ [](err \in StreamErrors => pc = "failed")
    /\ [][StreamFailureStep]_vars

StreamingFailureWitness ==
    /\ pc = "failed"
    /\ err = "read points"
    /\ i_file = 2
    /\ reader.len = 1
    /\ reader.pos = 0
    /\ \E t \in DOMAIN disk : Len(disk[t]) = 1 /\ t \notin DOMAIN closes

\* the inputs not yet retired: the one being processed and the later ones
Unretired == {k \in Inputs : k >= i_file}

\* C18: from the end of planning on, every tile of the registry has at least
\* one contributor, its contributors are exactly the unretired inputs planned
\* into it, and every tile planned for an unretired input is in the registry.
RegistryInvariant ==
    i_file >= 1 =>
        /\ \A t \in DOMAIN output_files :
              /\ output_files[t].input_files # {}
              /\ output_files[t].input_files =
                    {k \in Unretired : t \in TileRange(headers[k], tile_size)}
        /\ \A k \in Unretired :
              TileRange(headers[k], tile_size) \subseteq DOMAIN output_files

RegistryInvariantWitness ==
    /\ pc = "runs"
    /\ i_file = 2
    /\ \E t \in DOMAIN output_files :
          /\ output_files[t].input_files = {2}
          /\ t \in TileRange(headers[1], tile_size)
          /\ ~ output_files[t].writer
    /\ \E t \in removed : t \notin TileRange(headers[2], tile_size)

\* C19: the tile of a run whose first point lies within the header bounds of
\* its input is one of the tiles planned for that input and is in the registry,
\* so the lookup fails only on a point outside the bounds of its input.
LookupSafety ==
    /\ (pc = "runs" /\ InBounds(points[i + 1], headers[i_file])) =>
          /\ RunTile \in TileRange(headers[i_file], tile_size)
          /\ RunTile \in DOMAIN output_files
    /\ err = "tile should exist" => ~ InBounds(points[i + 1], headers[i_file])
    /\ (\A k \in Inputs : PointsInBounds(k)) => err # "tile should exist"

LookupSafetyWitness ==
    /\ pc = "done"
    /\ Len(headers) = 1
    /\ Len(input_points[1]) = 3
    /\ PointsInBounds(1)
    /\ Cardinality(FilesOf(1)) = 3
    /\ \E t \in FilesOf(1) : t[1] < 0

\* the run scan always has a point to start from, and a completed run has
\* gone past the last input
TerminationInv ==
    /\ err # "at least one point to process"
    /\ pc = "runs" => (i < Len(points) /\ RunLen >= 1)
    /\ pc = "done" => i_file = Len(headers) + 1
    /\ i_file <= Len(headers) + 1

\* every iteration of the run scan and every non-empty read advances, the batch
\* loop ends exactly on a read of zero points, and the streaming loop comes to
\* each input once, in order
TerminationStep ==
    /\ i_file' \in {i_file, i_file + 1}
    /\ (pc' = "open") => i_file' = i_file + 1
    /\ (pc = "runs" /\ pc' # "failed") => i' > i
    /\ (pc = "read" /\ pc' = "runs") =>
          (reader'.pos > reader.pos /\ Len(points') >= 1)
    /\ (pc = "read" /\ pc' # "failed") => ((pc' = "retain") <=> (Len(points') = 0))
    /\ (pc = "retain") => pc' \in {"open", "ensure"}

\* C20: every run ends, completed or failed, and on the way TerminationInv
\* holds in every state and TerminationStep on every step.
Termination ==
    /\ [](TerminationInv)
    /\ [][TerminationStep]_vars
    /\ <>(pc \in {"done", "failed"})

TerminationWitness ==
    /\ pc = "done"
    /\ Len(headers) = 2
    /\ batch_cap = 1
    /\ Len(input_points[1]) = 1
    /\ Len(input_points[2]) = 1
    /\ Cardinality(DOMAIN disk) = 2

====
